---------------------------- MODULE Spec2Model ----------------------------
(***************************************************************************)
(* State-machine model of the lifelong-learning experiment driver          *)
(* (lifelong.py): the evaluation function `performance` and the __main__   *)
(* script that either evaluates a loaded checkpoint or trains a model      *)
(* task by task, evaluates it after every task, reports, saves and plots.  *)
(*                                                                         *)
(* The network, the dataset class and the replay memory live in modules    *)
(* that the driver imports (models, datasets); what the driver needs of    *)
(* them is modelled from their documented contract and marked as such.     *)
(***************************************************************************)
EXTENDS Integers, Sequences, FiniteSets, TLC

\* ------------------------------------------------------------- bounds
NumClass == 2        \* test_data.num_class: classes, hence tasks, of the dataset
MaxTaskSize == 2     \* most samples one incremental task holds
MaxBatch == 2        \* largest --batch-size tried
MaxMemory == 2       \* largest --memory-size tried

Classes == 0 .. (NumClass - 1)
TestSize == NumClass + 1
Devices == {"cpu", "cuda"}

VARIABLES
    args,          \* parsed command line: load, save, plot, device, batch_size, memory_size
    cuda,          \* torch.cuda.is_available() on this machine
    data,          \* len(incremental_data) of every task of the dataset
    checkpoint,    \* the file --save writes and --load reads
    proc,          \* 1: the first process; 2: a later process run with --load
    pc,            \* position of the process in the script
    err,           \* the exception that ended the process, "none" if none
    net,           \* the model object: params, memLen, adj, training, device
    task,          \* loop variable i of `for i in range(test_data.num_class)`
    pending,       \* samples the incremental loader's iterator has not yielded yet
    batch,         \* the batch handed to the observe call in progress
    caller,        \* which call of performance is in progress
    remaining,     \* samples the loader inside performance has not yielded yet
    loaded,        \* the samples of the loader performance was called with
    correct,       \* local `correct` of performance
    total,         \* local `total` of performance
    trainAcc,      \* train_acc, as <<correct, total>>
    testAcc,       \* test_acc, as <<correct, total>>
    metrics,       \* evaluation_metrics
    printed,       \* what the --load path printed: <<train_acc, test_acc>>
    tablePrinted,  \* the metrics table was printed by this process
    ckptWritten,   \* torch.save ran in this process
    plotWritten,   \* plt.savefig ran in this process
    recorded,      \* the last metrics row at the time the checkpoint was written
    started,       \* task indices in the order the task loop took them
    obsCalls,      \* per task, the number of observe calls made
    obsBag,        \* per task, how often each sample was passed to observe
    evalsDone,     \* per task, evaluations of the training loop that returned
    active         \* operations on the model in progress

vars == <<args, cuda, data, checkpoint, proc, pc, err, net, task, pending, batch,
          caller, remaining, loaded, correct, total, trainAcc, testAcc, metrics,
          printed, tablePrinted, ckptWritten, plotWritten, recorded, started,
          obsCalls, obsBag, evalsDone, active>>

\* ------------------------------------------------------------ dataset
\* A sample is <<split, label, index>>.  Task i of the incremental split holds
\* the samples whose label is i; the train split is the union of the tasks.
AllTrain == {<<"train", i, k>> : i \in Classes, k \in 1 .. MaxTaskSize}

TaskSamples(i) == {<<"train", i, k>> : k \in 1 .. data[i]}

TrainSet == UNION {TaskSamples(i) : i \in Classes}

\* The test split mixes the classes.
TestSet == {<<"test", (k \div 2) % NumClass, k>> : k \in 1 .. TestSize}

Label(s) == s[2]

\* Position of a sample in its split, for loaders built with shuffle=False.
Idx(s) == s[2] * (MaxTaskSize + 1) + s[3]

Min(a, b) == IF a < b THEN a ELSE b

CeilDiv(n, b) == (n + b - 1) \div b

\* The batches a loader's iterator may yield next: with shuffle=False the first
\* batch_size samples left, with shuffle=True any batch_size of them; the last
\* batch is partial (drop_last is not set).
NextBatches(rem, b, shuffle) ==
    IF shuffle
    THEN {B \in SUBSET rem : Cardinality(B) = Min(b, Cardinality(rem))}
    ELSE {{s \in rem : Cardinality({t \in rem : Idx(t) < Idx(s)}) < b}}

\* ------------------------------------------------------------ network
\* The forward pass followed by torch.max(outputs, 1): the class predicted for
\* a sample is a function of the parameters and the sample alone.  The
\* parameters are abstracted to NumClass values, each a classifier that
\* assigns different classes to different samples of a split.
Predict(params, s) == (params + s[3]) % NumClass

NoNet == [params |-> 0, memLen |-> 0, adj |-> 0, training |-> TRUE, device |-> "none"]

NoFile == [exists |-> FALSE, params |-> 0, memLen |-> 0, adj |-> 0, training |-> TRUE]

NoAcc == <<0, 0>>

\* Replay memory after observe inserted n samples: insert, evict down to capacity.
ObserveMemoryNoEvict(len, n, cap) == len + n

ObserveMemory(len, n, cap) == IF len + n > cap THEN cap ELSE len + n

DeviceAvailable == args.device = "cpu" \/ cuda

ZeroBag == [s \in AllTrain |-> 0]

\* A new process: everything but the machine, the dataset and the files.
FreshProcess ==
    /\ pc = "start"
    /\ err = "none"
    /\ net = NoNet
    /\ task = 0
    /\ pending = {}
    /\ batch = {}
    /\ caller = "none"
    /\ remaining = {}
    /\ loaded = {}
    /\ correct = 0
    /\ total = 0
    /\ trainAcc = NoAcc
    /\ testAcc = NoAcc
    /\ metrics = <<>>
    /\ printed = <<>>
    /\ tablePrinted = FALSE
    /\ ckptWritten = FALSE
    /\ plotWritten = FALSE
    /\ started = <<>>
    /\ obsCalls = [i \in Classes |-> 0]
    /\ obsBag = [i \in Classes |-> ZeroBag]
    /\ evalsDone = [i \in Classes |-> 0]
    /\ active = {}

Init ==
    /\ args \in [load : BOOLEAN, save : BOOLEAN, plot : BOOLEAN, device : Devices,
                 batch_size : 1 .. MaxBatch, memory_size : 0 .. MaxMemory]
    /\ cuda \in BOOLEAN
    /\ data \in [Classes -> 1 .. MaxTaskSize]
    /\ checkpoint = NoFile
    /\ proc = 1
    /\ recorded = <<>>
    /\ FreshProcess


\* ------------------------------------------------------ variable groups
machine == <<cuda, data>>
frame == <<caller, remaining, loaded, correct, total>>
accs == <<trainAcc, testAcc>>
outputs == <<printed, tablePrinted, ckptWritten, plotWritten>>
loopGhosts == <<started, obsCalls, obsBag>>

\* ------------------------------------------------ performance(loader, net, device)
Shuffled(c) == c \in {"train", "harness_shuffle"}

InTrainingLoop(c) == c \in {"train", "test"}

\* Lines 55-56: the batch is moved to the requested device only when CUDA is
\* available; otherwise it stays where the loader put it, on the CPU.
InputDevice == IF cuda THEN args.device ELSE "cpu"

\* Lines 51-53: net.eval(); correct, total = 0, 0.
PerfEnter ==
    /\ pc = "perf_enter"
    /\ net' = [net EXCEPT !.training = FALSE]
    /\ correct' = 0
    /\ total' = 0
    /\ active' = active \cup {"performance"}
    /\ pc' = "perf_loop"
    /\ UNCHANGED <<args, machine, checkpoint, proc, err, task, pending, batch, caller,
                   remaining, loaded, accs, metrics, outputs, recorded, loopGhosts,
                   evalsDone>>

\* Lines 54-60, one iteration: the forward pass needs the batch on the model's
\* device; total grows by the batch's size, correct by its correct predictions.
PerfBatch ==
    /\ pc = "perf_loop"
    /\ remaining # {}
    /\ \E B \in NextBatches(remaining, args.batch_size, Shuffled(caller)) :
          IF InputDevice # net.device
          THEN /\ pc' = "crashed"
               /\ err' = "DeviceMismatch"
               /\ UNCHANGED <<remaining, correct, total>>
          ELSE /\ remaining' = remaining \ B
               /\ total' = total + Cardinality(B)
               /\ correct' = correct
                     + Cardinality({s \in B : Predict(net.params, s) = Label(s)})
               /\ UNCHANGED <<pc, err>>
    /\ UNCHANGED <<args, machine, checkpoint, proc, net, task, pending, batch, caller,
                   loaded, accs, metrics, outputs, recorded, loopGhosts, evalsDone,
                   active>>

\* Where the script goes on after a call of performance returns.
AfterPerformance(c) ==
    CASE c = "train" -> "eval_test"
      [] c = "test" -> "append"
      [] c = "load_train" -> "load_eval_test"
      [] c = "load_test" -> "print_load"
      [] OTHER -> "returned"

\* Lines 61-62: acc = correct/total; return acc.  The division raises
\* ZeroDivisionError when the loader yielded no sample.
PerfReturn ==
    /\ pc = "perf_loop"
    /\ remaining = {}
    /\ IF total = 0
       THEN /\ pc' = "crashed"
            /\ err' = "ZeroDivisionError"
            /\ UNCHANGED <<accs, evalsDone, active>>
       ELSE /\ pc' = AfterPerformance(caller)
            /\ trainAcc' = IF caller \in {"test", "load_test"}
                           THEN trainAcc ELSE <<correct, total>>
            /\ testAcc' = IF caller \in {"test", "load_test"}
                          THEN <<correct, total>> ELSE testAcc
            /\ evalsDone' = IF InTrainingLoop(caller)
                            THEN [evalsDone EXCEPT ![task] = @ + 1] ELSE evalsDone
            /\ active' = active \ {"performance"}
            /\ UNCHANGED err
    /\ UNCHANGED <<args, machine, checkpoint, proc, net, task, pending, batch, frame,
                   metrics, outputs, recorded, loopGhosts>>

\* ------------------------------------------------------------ __main__
\* Lines 86-87: the test split and its loader.
BuildTestLoader ==
    /\ pc = "start"
    /\ pc' = "branch"
    /\ UNCHANGED <<args, machine, checkpoint, proc, err, net, task, pending, batch,
                   frame, accs, metrics, outputs, recorded, loopGhosts, evalsDone,
                   active>>

\* Line 89: if args.load is not None.
BranchOnLoad ==
    /\ pc = "branch"
    /\ pc' = IF args.load THEN "load_data" ELSE "construct"
    /\ UNCHANGED <<args, machine, checkpoint, proc, err, net, task, pending, batch,
                   frame, accs, metrics, outputs, recorded, loopGhosts, evalsDone,
                   active>>

\* Lines 90-91: the train split and its loader.
LoadTrainData ==
    /\ pc = "load_data"
    /\ pc' = "load_ckpt"
    /\ UNCHANGED <<args, machine, checkpoint, proc, err, net, task, pending, batch,
                   frame, accs, metrics, outputs, recorded, loopGhosts, evalsDone,
                   active>>

\* A --load that builds a new model instead of reading the file.
LoadCheckpointFresh ==
    /\ pc = "load_ckpt"
    /\ \E p \in Classes :
          net' = [params |-> p, memLen |-> 0, adj |-> 0, training |-> TRUE,
                  device |-> args.device]
    /\ pc' = "load_eval_train"
    /\ UNCHANGED <<args, machine, checkpoint, proc, err, task, pending, batch, frame,
                   accs, metrics, outputs, recorded, loopGhosts, evalsDone, active>>

\* Line 92: net = torch.load(args.load, map_location=args.device).
LoadCheckpoint ==
    /\ pc = "load_ckpt"
    /\ IF ~checkpoint.exists
       THEN /\ pc' = "crashed"
            /\ err' = "CheckpointLoadFailure"
            /\ UNCHANGED net
       ELSE IF ~DeviceAvailable
       THEN /\ pc' = "crashed"
            /\ err' = "DeviceUnavailable"
            /\ UNCHANGED net
       ELSE /\ net' = [params |-> checkpoint.params, memLen |-> checkpoint.memLen,
                       adj |-> checkpoint.adj, training |-> checkpoint.training,
                       device |-> args.device]
            /\ pc' = "load_eval_train"
            /\ UNCHANGED err
    /\ UNCHANGED <<args, machine, checkpoint, proc, task, pending, batch, frame, accs,
                   metrics, outputs, recorded, loopGhosts, evalsDone, active>>

\* Line 93, first call: performance(train_loader, net, args.device).
LoadEvalTrain ==
    /\ pc = "load_eval_train"
    /\ caller' = "load_train"
    /\ remaining' = TrainSet
    /\ loaded' = TrainSet
    /\ pc' = "perf_enter"
    /\ UNCHANGED <<args, machine, checkpoint, proc, err, net, task, pending, batch,
                   correct, total, accs, metrics, outputs, recorded, loopGhosts,
                   evalsDone, active>>

\* Line 93, second call: performance(test_loader, net, args.device).
LoadEvalTest ==
    /\ pc = "load_eval_test"
    /\ caller' = "load_test"
    /\ remaining' = TestSet
    /\ loaded' = TestSet
    /\ pc' = "perf_enter"
    /\ UNCHANGED <<args, machine, checkpoint, proc, err, net, task, pending, batch,
                   correct, total, accs, metrics, outputs, recorded, loopGhosts,
                   evalsDone, active>>

\* A --load path that prints and then falls through to the training path.
PrintLoadNoExit ==
    /\ pc = "print_load"
    /\ printed' = <<trainAcc, testAcc>>
    /\ pc' = "construct"
    /\ UNCHANGED <<args, machine, checkpoint, proc, err, net, task, pending, batch,
                   frame, accs, metrics, tablePrinted, ckptWritten, plotWritten,
                   recorded, loopGhosts, evalsDone, active>>

\* Lines 94-95: print("Train Acc: ..., Test Acc: ..."); exit().
PrintLoadAndExit ==
    /\ pc = "print_load"
    /\ printed' = <<trainAcc, testAcc>>
    /\ pc' = "exited"
    /\ UNCHANGED <<args, machine, checkpoint, proc, err, net, task, pending, batch,
                   frame, accs, metrics, tablePrinted, ckptWritten, plotWritten,
                   recorded, loopGhosts, evalsDone, active>>

\* Lines 97-99: net = Model(...).to(args.device); evaluation_metrics = [].
\* Moving the model to a device that is not there raises.
ConstructModel ==
    /\ pc = "construct"
    /\ IF ~DeviceAvailable
       THEN /\ pc' = "crashed"
            /\ err' = "DeviceUnavailable"
            /\ UNCHANGED <<net, task, metrics>>
       ELSE /\ net' = [params |-> 0, memLen |-> 0, adj |-> 0, training |-> TRUE,
                       device |-> args.device]
            /\ metrics' = <<>>
            /\ task' = 0
            /\ pc' = "task_begin"
            /\ UNCHANGED err
    /\ UNCHANGED <<args, machine, checkpoint, proc, pending, batch, frame, accs,
                   outputs, recorded, loopGhosts, evalsDone, active>>

\* Lines 100-102: the next task index, its incremental split and its loader.
BuildIncrementalLoader ==
    /\ pc = "task_begin"
    /\ task < NumClass
    /\ pending' = TaskSamples(task)
    /\ started' = Append(started, task)
    /\ pc' = "batch_loop"
    /\ UNCHANGED <<args, machine, checkpoint, proc, err, net, task, batch, frame, accs,
                   metrics, outputs, recorded, obsCalls, obsBag, evalsDone, active>>

\* A batch loop left after its first batch.
ObserveCallOnce ==
    /\ pc = "batch_loop"
    /\ pending # {}
    /\ \E B \in NextBatches(pending, args.batch_size, TRUE) :
          /\ batch' = B
          /\ pending' = {}
          /\ obsBag' = [obsBag EXCEPT ![task] =
                           [s \in AllTrain |-> IF s \in B THEN @[s] + 1 ELSE @[s]]]
    /\ obsCalls' = [obsCalls EXCEPT ![task] = @ + 1]
    /\ active' = active \cup {"observe"}
    /\ pc' = "observe"
    /\ UNCHANGED <<args, machine, checkpoint, proc, err, net, task, frame, accs,
                   metrics, outputs, recorded, started, evalsDone>>

\* Lines 103-106, up to the call: the loader (shuffle=True) yields the next
\* batch, inputs, targets and neighbors are moved to args.device, and
\* net.observe is entered.
ObserveCall ==
    /\ pc = "batch_loop"
    /\ pending # {}
    /\ IF ~DeviceAvailable
       THEN /\ pc' = "crashed"
            /\ err' = "DeviceUnavailable"
            /\ UNCHANGED <<batch, pending, obsBag, obsCalls, active>>
       ELSE /\ \E B \in NextBatches(pending, args.batch_size, TRUE) :
                  /\ batch' = B
                  /\ pending' = pending \ B
                  /\ obsBag' = [obsBag EXCEPT ![task] =
                                   [s \in AllTrain |-> IF s \in B THEN @[s] + 1 ELSE @[s]]]
            /\ obsCalls' = [obsCalls EXCEPT ![task] = @ + 1]
            /\ active' = active \cup {"observe"}
            /\ pc' = "observe"
            /\ UNCHANGED err
    /\ UNCHANGED <<args, machine, checkpoint, proc, net, task, frame, accs, metrics,
                   outputs, recorded, started, evalsDone>>

\* Line 106, the call's effect and return: the optimizer steps leave some
\* parameters, the batch is inserted into the replay memory, the adjacency
\* statistic is updated once.
ObserveReturn ==
    /\ pc = "observe"
    /\ \E p \in Classes :
          net' = [net EXCEPT !.params = p,
                             !.memLen = ObserveMemory(@, Cardinality(batch),
                                                      args.memory_size),
                             !.adj = @ + 1]
    /\ batch' = {}
    /\ active' = active \ {"observe"}
    /\ pc' = "batch_loop"
    /\ UNCHANGED <<args, machine, checkpoint, proc, err, task, pending, frame, accs,
                   metrics, outputs, recorded, loopGhosts, evalsDone>>

\* An evaluation started without waiting for the batch loop to end.
EvalTrainEarly ==
    /\ pc = "batch_loop"
    /\ caller' = "train"
    /\ remaining' = TaskSamples(task)
    /\ loaded' = TaskSamples(task)
    /\ pc' = "perf_enter"
    /\ UNCHANGED <<args, machine, checkpoint, proc, err, net, task, pending, batch,
                   correct, total, accs, metrics, outputs, recorded, loopGhosts,
                   evalsDone, active>>

\* Line 108, first call, once the batch loop is exhausted:
\* performance(incremental_loader, net, args.device).
EvalTrain ==
    /\ pc = "batch_loop"
    /\ pending = {}
    /\ caller' = "train"
    /\ remaining' = TaskSamples(task)
    /\ loaded' = TaskSamples(task)
    /\ pc' = "perf_enter"
    /\ UNCHANGED <<args, machine, checkpoint, proc, err, net, task, pending, batch,
                   correct, total, accs, metrics, outputs, recorded, loopGhosts,
                   evalsDone, active>>

\* Line 108, second call: performance(test_loader, net, args.device).
EvalTest ==
    /\ pc = "eval_test"
    /\ caller' = "test"
    /\ remaining' = TestSet
    /\ loaded' = TestSet
    /\ pc' = "perf_enter"
    /\ UNCHANGED <<args, machine, checkpoint, proc, err, net, task, pending, batch,
                   correct, total, accs, metrics, outputs, recorded, loopGhosts,
                   evalsDone, active>>

\* A row that records the index of the next task.
AppendRowOffByOne ==
    /\ pc = "append"
    /\ metrics' = Append(metrics, <<task + 1, Cardinality(TaskSamples(task)),
                                    trainAcc, testAcc>>)
    /\ task' = task + 1
    /\ pc' = "task_begin"
    /\ UNCHANGED <<args, machine, checkpoint, proc, err, net, pending, batch, frame,
                   accs, outputs, recorded, loopGhosts, evalsDone, active>>

\* Line 109, and the loop's step to the next index:
\* evaluation_metrics.append([i, len(incremental_data), train_acc, test_acc]).
AppendRow ==
    /\ pc = "append"
    /\ metrics' = Append(metrics, <<task, Cardinality(TaskSamples(task)),
                                    trainAcc, testAcc>>)
    /\ task' = task + 1
    /\ pc' = "task_begin"
    /\ UNCHANGED <<args, machine, checkpoint, proc, err, net, pending, batch, frame,
                   accs, outputs, recorded, loopGhosts, evalsDone, active>>

\* Lines 111-114, after the loop: the metrics table is printed.
PrintTable ==
    /\ pc = "task_begin"
    /\ task >= NumClass
    /\ tablePrinted' = TRUE
    /\ pc' = "save"
    /\ UNCHANGED <<args, machine, checkpoint, proc, err, net, task, pending, batch,
                   frame, accs, metrics, printed, ckptWritten, plotWritten, recorded,
                   loopGhosts, evalsDone, active>>

\* Lines 116-117: if args.save is not None: torch.save(net, args.save).
SaveCheckpoint ==
    /\ pc = "save"
    /\ IF args.save
       THEN /\ checkpoint' = [exists |-> TRUE, params |-> net.params,
                              memLen |-> net.memLen, adj |-> net.adj,
                              training |-> net.training]
            /\ ckptWritten' = TRUE
            /\ recorded' = metrics[Len(metrics)]
       ELSE UNCHANGED <<checkpoint, ckptWritten, recorded>>
    /\ pc' = "plot"
    /\ UNCHANGED <<args, machine, proc, err, net, task, pending, batch, frame, accs,
                   metrics, printed, tablePrinted, plotWritten, loopGhosts, evalsDone,
                   active>>

\* Lines 119-130: if args.plot: ... plt.savefig("doc/plt.png").
PlotMetrics ==
    /\ pc = "plot"
    /\ plotWritten' = args.plot
    /\ pc' = "done"
    /\ UNCHANGED <<args, machine, checkpoint, proc, err, net, task, pending, batch,
                   frame, accs, metrics, printed, tablePrinted, ckptWritten, recorded,
                   loopGhosts, evalsDone, active>>

\* The exception a collaborator may raise where the script stands: the dataset
\* (lines 86, 90, 101), observe (106), the forward pass of an evaluation (57),
\* torch.save (117), the plotting calls (120-130).
FailureAt ==
    CASE pc \in {"start", "load_data"} -> "DatasetFailure"
      [] pc = "task_begin" /\ task < NumClass -> "DatasetFailure"
      [] pc = "observe" -> "ObserveFailure"
      [] pc \in {"perf_enter", "perf_loop"} /\ caller \in {"train", "test",
                   "load_train", "load_test"} -> "EvaluationFailure"
      [] pc = "save" /\ args.save -> "SaveFailure"
      [] pc = "plot" /\ args.plot -> "PlotFailure"
      [] OTHER -> "none"

\* An exception that is caught, after which the script carries on to its report.
FailSwallowed ==
    /\ FailureAt # "none"
    /\ pc \notin {"save", "plot"}
    /\ err' = FailureAt
    /\ task' = NumClass
    /\ pc' = "task_begin"
    /\ UNCHANGED <<args, machine, checkpoint, proc, net, pending, batch, frame, accs,
                   metrics, outputs, recorded, loopGhosts, evalsDone, active>>

\* No statement of the script catches an exception: it ends the process there.
Fail ==
    /\ FailureAt # "none"
    /\ err' = FailureAt
    /\ pc' = "crashed"
    /\ UNCHANGED <<args, machine, checkpoint, proc, net, task, pending, batch, frame,
                   accs, metrics, outputs, recorded, loopGhosts, evalsDone, active>>

\* A later run on the same machine and dataset, with --load naming the
\* checkpoint the first run wrote.
Reload ==
    /\ pc = "done"
    /\ proc = 1
    /\ ckptWritten
    /\ proc' = 2
    /\ \E s \in BOOLEAN, pl \in BOOLEAN :
          args' = [args EXCEPT !.load = TRUE, !.save = s, !.plot = pl]
    /\ pc' = "start"
    /\ err' = "none"
    /\ net' = NoNet
    /\ task' = 0
    /\ pending' = {}
    /\ batch' = {}
    /\ caller' = "none"
    /\ remaining' = {}
    /\ loaded' = {}
    /\ correct' = 0
    /\ total' = 0
    /\ trainAcc' = NoAcc
    /\ testAcc' = NoAcc
    /\ metrics' = <<>>
    /\ printed' = <<>>
    /\ tablePrinted' = FALSE
    /\ ckptWritten' = FALSE
    /\ plotWritten' = FALSE
    /\ started' = <<>>
    /\ obsCalls' = [i \in Classes |-> 0]
    /\ obsBag' = [i \in Classes |-> ZeroBag]
    /\ evalsDone' = [i \in Classes |-> 0]
    /\ active' = {}
    /\ UNCHANGED <<machine, checkpoint, recorded>>

Next ==
    \/ BuildTestLoader
    \/ BranchOnLoad
    \/ LoadTrainData
    \/ LoadCheckpoint
    \/ LoadEvalTrain
    \/ LoadEvalTest
    \/ PrintLoadAndExit
    \/ ConstructModel
    \/ BuildIncrementalLoader
    \/ ObserveCall
    \/ ObserveReturn
    \/ EvalTrain
    \/ EvalTest
    \/ PerfEnter
    \/ PerfBatch
    \/ PerfReturn
    \/ AppendRow
    \/ PrintTable
    \/ SaveCheckpoint
    \/ PlotMetrics
    \/ Fail
    \/ Reload

Spec == Init /\ [][Next]_vars

\* ------------------------------------- performance on an arbitrary loader
\* A call of performance on any loader over a pool of labelled samples, the
\* empty one included, with a model in either mode on the machine's device.
PerfInit ==
    /\ args \in [load : {FALSE}, save : {FALSE}, plot : {FALSE}, device : Devices,
                 batch_size : 1 .. MaxBatch, memory_size : {0}]
    /\ cuda \in BOOLEAN
    /\ DeviceAvailable
    /\ data \in [Classes -> {1}]
    /\ checkpoint = NoFile
    /\ proc = 1
    /\ recorded = <<>>
    /\ err = "none"
    /\ \E p \in Classes, tr \in BOOLEAN :
          net = [params |-> p, memLen |-> 0, adj |-> 0, training |-> tr,
                 device |-> args.device]
    /\ task = 0
    /\ pending = {}
    /\ batch = {}
    /\ caller \in {"harness", "harness_shuffle"}
    /\ loaded \in SUBSET TestSet
    /\ remaining = loaded
    /\ correct = 0
    /\ total = 0
    /\ trainAcc = NoAcc
    /\ testAcc = NoAcc
    /\ metrics = <<>>
    /\ printed = <<>>
    /\ tablePrinted = FALSE
    /\ ckptWritten = FALSE
    /\ plotWritten = FALSE
    /\ started = <<>>
    /\ obsCalls = [i \in Classes |-> 0]
    /\ obsBag = [i \in Classes |-> ZeroBag]
    /\ evalsDone = [i \in Classes |-> 0]
    /\ active = {}
    /\ pc = "perf_enter"

PerfNext == PerfEnter \/ PerfBatch \/ PerfReturn

SpecPerf == PerfInit /\ [][PerfNext]_vars

\* ------------------------------------------------------------- claims
\* The accuracy of parameters p over a set of samples, as <<correct, total>>.
AccOf(p, S) == <<Cardinality({s \in S : Predict(p, s) = Label(s)}), Cardinality(S)>>

\* Two accuracies <<correct, total>> that are the same number.
AccEq(a, b) == a[2] > 0 /\ b[2] > 0 /\ a[1] * b[2] = b[1] * a[2]

InPerformance == pc \in {"perf_enter", "perf_loop"}

\* The batch loop of task i has been left.
LoopLeft(i) ==
    /\ i < Len(started)
    /\ \/ task > i
       \/ InPerformance
       \/ pc \in {"eval_test", "append"}

C1_Rows ==
    /\ \A j \in 1 .. Len(started) : started[j] = j - 1
    /\ Len(metrics) <= Len(started)
    /\ \A k \in 1 .. Len(metrics) :
          metrics[k][1] = k - 1 /\ metrics[k][2] = data[k - 1]
    /\ pc \in {"save", "plot", "done"} =>
          Len(metrics) = NumClass /\ Len(started) = NumClass

C1_Append ==
    proc' = proc =>
       \/ metrics' = metrics
       \/ /\ task \in Classes
          /\ metrics' = Append(metrics, <<task, data[task],
                                          AccOf(net.params, TaskSamples(task)),
                                          AccOf(net.params, TestSet)>>)

\* C1: a run without --load takes the task indices 0, 1, ..., num_class-1 in
\* increasing order, each once; once the loop is over the metrics hold exactly
\* num_class rows, row k being (k, samples of task k, train accuracy, test
\* accuracy); within a process a step leaves the rows alone or appends one.
C1_TasksInOrderRowsAppendOnly == [](C1_Rows) /\ [][C1_Append]_vars

C1_Witness == pc = "done" /\ ~args.load /\ Len(metrics) = NumClass

\* C2: with --load the process never calls observe, never appends a metrics
\* row, prints no table and writes neither checkpoint nor plot, whatever --save
\* and --plot are; it prints the checkpoint's accuracies over the full train
\* set and the test set and then stops.
C2_LoadOnlyEvaluates ==
    args.load =>
       /\ \A i \in Classes : obsCalls[i] = 0
       /\ started = <<>>
       /\ metrics = <<>>
       /\ ~tablePrinted /\ ~ckptWritten /\ ~plotWritten
       /\ pc \notin {"construct", "task_begin", "batch_loop", "observe", "save", "plot"}
       /\ printed # <<>> =>
             /\ pc = "exited"
             /\ printed = <<AccOf(checkpoint.params, TrainSet),
                            AccOf(checkpoint.params, TestSet)>>
       /\ pc = "exited" => (printed # <<>> /\ ~ENABLED Next)

C2_Witness == args.load /\ args.save /\ args.plot /\ pc = "exited"

\* C3: an observe call and an evaluation are never in progress together; an
\* evaluation for task i starts only after every batch of task i was observed;
\* the train evaluation precedes the test evaluation; row i is appended, and
\* task i+1 observed, only after both evaluations for task i returned.
C3_StrictSequencing ==
    /\ Cardinality(active) <= 1
    /\ (InPerformance /\ InTrainingLoop(caller)) =>
          /\ pending = {}
          /\ Len(metrics) = task
          /\ \A s \in TaskSamples(task) : obsBag[task][s] >= 1
          /\ evalsDone[task] = (IF caller = "train" THEN 0 ELSE 1)
    /\ "observe" \in active =>
          /\ Len(metrics) = task
          /\ evalsDone[task] = 0
          /\ \A j \in Classes : j < task => evalsDone[j] = 2
    /\ \A k \in 1 .. Len(metrics) : evalsDone[k - 1] = 2

C3_Witness == "observe" \in active /\ task = NumClass - 1 /\ Len(metrics) = task

C4_Bounded == net.memLen >= 0 /\ net.memLen <= args.memory_size

C4_Frame ==
    /\ (pc = "construct" /\ pc' = "task_begin") => net'.memLen = 0
    /\ (net'.memLen # net.memLen /\ proc' = proc /\ pc # "load_ckpt") => pc = "observe"

\* C4: the replay memory never holds more samples than --memory-size; it is
\* empty when the model is constructed, and within a process only an observe
\* call (or reading a checkpoint) changes it.
C4_MemoryBounded == [](C4_Bounded) /\ [][C4_Frame]_vars

C4_Witness ==
    /\ pc = "batch_loop"
    /\ args.memory_size > 0
    /\ net.memLen = args.memory_size
    /\ net.adj * args.batch_size > args.memory_size
    /\ obsCalls[0] * args.batch_size > args.memory_size

\* C5: a call of performance on any loader, the empty one included, returns
\* correct/total in [0,1], where total is the loader's sample count and correct
\* the number of its samples predicted with their label.
C5_PerformanceOnAnyLoader ==
    pc \in {"returned", "crashed"} =>
       /\ pc = "returned"
       /\ total = Cardinality(loaded)
       /\ correct = Cardinality({s \in loaded : Predict(net.params, s) = Label(s)})
       /\ trainAcc = <<correct, total>>
       /\ total > 0 /\ 0 <= correct /\ correct <= total

\* C6: no step of a call of performance changes the model: parameters, replay
\* memory, adjacency statistic and training/evaluation mode stay as they were.
C6_PerformanceLeavesModel ==
    [][(InPerformance /\ pc' # "crashed") => net' = net]_vars

\* C7, as claimed: a --load run on the checkpoint a --save run wrote prints the
\* train accuracy and the test accuracy of the saving run's last metrics row.
C7_RoundTripBoth ==
    (proc = 2 /\ pc = "exited") =>
       /\ AccEq(printed[1], recorded[3])
       /\ AccEq(printed[2], recorded[4])

\* C7, amended: the --load run prints the test accuracy of the last metrics
\* row; its train accuracy is the checkpoint's accuracy over the full train
\* set, whereas the row's train accuracy is the one over the last task's
\* samples only.
C7_RoundTripTest ==
    (proc = 2 /\ pc = "exited") =>
       /\ AccEq(printed[2], recorded[4])
       /\ printed[1] = AccOf(checkpoint.params, TrainSet)
       /\ recorded[3] = AccOf(checkpoint.params, TaskSamples(NumClass - 1))

C7_Witness == proc = 2 /\ pc = "exited" /\ ~AccEq(printed[1], recorded[3])

\* C8: an error ends the process where it is raised; after a failure of
\* dataset loading, observe or an evaluation no table is printed and neither
\* checkpoint nor plot is written; table, checkpoint and plot exist only once
\* all num_class tasks have been trained and evaluated.
C8_ErrorsAreFatal ==
    /\ err # "none" => (pc = "crashed" /\ ~ENABLED Next)
    /\ err \in {"DatasetFailure", "ObserveFailure", "EvaluationFailure"} =>
          ~tablePrinted /\ ~ckptWritten /\ ~plotWritten
    /\ (tablePrinted \/ ckptWritten \/ plotWritten) =>
          /\ Len(metrics) = NumClass
          /\ \A i \in Classes : evalsDone[i] = 2
    /\ (ckptWritten \/ plotWritten) => tablePrinted

C8_Witness ==
    /\ pc = "crashed"
    /\ err = "EvaluationFailure"
    /\ Len(metrics) = NumClass - 1
    /\ caller = "test"

\* C9: a run that asks for an accelerator the machine does not have carries on
\* on the CPU: it is not ended by the missing device.
C9_SilentCpuFallback ==
    (args.device = "cuda" /\ ~cuda) => err # "DeviceUnavailable"

\* C10: within a task observe is called once per batch the loader yields:
\* ceil(n/b) calls for n samples and batch size b, every sample of the task in
\* exactly one of them, and no sample of another task.
C10_ObserveOncePerBatch ==
    \A i \in Classes :
       /\ obsCalls[i] <= CeilDiv(data[i], args.batch_size)
       /\ \A s \in AllTrain :
             /\ obsBag[i][s] <= 1
             /\ obsBag[i][s] = 1 => s \in TaskSamples(i)
       /\ LoopLeft(i) =>
             /\ obsCalls[i] = CeilDiv(data[i], args.batch_size)
             /\ \A s \in TaskSamples(i) : obsBag[i][s] = 1

C10_Witness ==
    /\ pc = "done"
    /\ \E i \in Classes : data[i] % args.batch_size # 0 /\ obsCalls[i] >= 1
=============================================================================
